---- MODULE Spec2Model ----
(***************************************************************************)
(* Model of the fuzzing-tc decision code: pool configuration resolution    *)
(* (PoolConfiguration.__init__ / _flatten / is_complete), the size and     *)
(* time parsers, and the decision workflow that consumes a configuration.  *)
(*                                                                         *)
(* Python values are represented as follows:                               *)
(*   - a str that is parsed character by character is a sequence of        *)
(*     one-character strings;                                              *)
(*   - an optional value is a sequence: <<>> is None, <<v>> is v;          *)
(*   - a float is an exact quotient (see Frac and SizeVal);                *)
(*   - an exception is a record [type, msg, arg] (NoError for none).       *)
(*                                                                         *)
(* A local name of the code that is read several times is a parameter of   *)
(* a helper operator (TimeMatch1, TimeMatch2, ...) rather than a LET.      *)
(***************************************************************************)
EXTENDS Integers, Sequences, FiniteSets, TLC

VARIABLES
    parentsOf,    \* the pool documents on disk: name -> its `parents` list
    kindOf,       \* the documents read so far: name -> the content found
    caller,       \* the running entry point ("idle" before)
    todo,         \* the pool files the entry point has still to process
    status,       \* "idle", "next", "resolving", "resolved", "done" or "failed"
    stack,        \* the nested __init__/_flatten calls: [obj, i], innermost last
    flattened,    \* the `_flattened` set of the running resolution
    refs,         \* history: the parent names the loop of _flatten has taken
    loads,        \* history: the names from_file was called with
    error,        \* the exception that ended the run (NoError otherwise)
    resolved,     \* the PoolConfiguration the entry point holds
    handed,       \* the consumers the configuration was handed to
    checked,      \* the outcome of is_complete on it ("none" when not called)
    data_in,      \* __init__ alone: the `data` argument
    time_in,      \* parse_time: the `time` argument
    time_div,     \* parse_time: the `divisor` argument
    time_out,     \* parse_time: what the call produced (NotCalled before)
    size_in,      \* parse_size: the `size` argument
    size_div,     \* parse_size: the `divisor` argument
    size_out,     \* parse_size: what the call produced (NotCalled before)
    machines_data,\* MachineTypes.__init__: the `machines_data` argument
    catalog,      \* MachineTypes: self._data (None before construction)
    mt_error,     \* the exception that ended MachineTypes.__init__
    mt_out,       \* the last query on the catalog: its arguments and outcome
    requery       \* how a repeated query compared with the one before it

poolVars == <<parentsOf, kindOf, caller, todo, status, stack, flattened, refs, loads,
              error, resolved, handed, checked>>
timeVars == <<time_in, time_div, time_out>>
sizeVars == <<size_in, size_div, size_out>>
machineVars == <<machines_data, catalog, mt_error, mt_out, requery>>
vars == <<poolVars, data_in, timeVars, sizeVars, machineVars>>

(***************************************************************************)
(* Bounds                                                                  *)
(***************************************************************************)
MaxTimeLen == 5     \* characters of a duration string
MaxRefs == 4        \* parent references in all the documents together
MaxParents == 2     \* entries of one `parents` list
MaxDepth == 6       \* nested from_file calls
MaxVaried == 2      \* fields of a raw mapping that differ from the full document
MaxSizeLen == 4     \* characters of a size string
MaxMachines == 2    \* machines listed under one provider and architecture

(***************************************************************************)
(* Generic helpers                                                         *)
(***************************************************************************)
None == <<>>
Some(v) == <<v>>

NotCalled == [called |-> FALSE]

RECURSIVE Gcd(_, _)
Gcd(a, b) == IF b = 0 THEN a ELSE Gcd(b, a % b)

\* Python true division of two non-negative ints, kept exact: n / d in lowest terms.
FracBy(n, d, g) == <<n \div g, d \div g>>
Frac(n, d) == FracBy(n, d, Gcd(n, d))

Extend(shorter, S, n) ==
    shorter \cup {Append(s, c) : s \in {t \in shorter : Len(t) = n - 1}, c \in S}

RECURSIVE SeqsUpTo(_, _)
SeqsUpTo(S, n) == IF n = 0 THEN {<<>>} ELSE Extend(SeqsUpTo(S, n - 1), S, n)

Range(s) == {s[i] : i \in 1..Len(s)}

(***************************************************************************)
(* Character classes of Python's re module                                 *)
(***************************************************************************)
DigitVal ==
    "0" :> 0 @@ "1" :> 1 @@ "2" :> 2 @@ "3" :> 3 @@ "4" :> 4 @@
    "5" :> 5 @@ "6" :> 6 @@ "7" :> 7 @@ "8" :> 8 @@ "9" :> 9

\* \d
IsDigit(c) == c \in DOMAIN DigitVal

\* \s
IsSpace(c) == c \in {" ", "\n", "\t"}

\* . without re.DOTALL matches everything but a line break
IsDot(c) == c # "\n"

\* str.lower() on the letters the parsers look at
Lower(c) ==
    CASE c = "W" -> "w" [] c = "D" -> "d" [] c = "H" -> "h" [] c = "M" -> "m"
      [] c = "S" -> "s" [] c = "K" -> "k" [] c = "G" -> "g" [] c = "T" -> "t"
      [] c = "B" -> "b" [] OTHER -> c

\* index of the first position >= i of s that does not satisfy the class
\* (Len(s) + 1 when the class runs to the end): a greedy `class*`.
RECURSIVE SkipSpaces(_, _)
SkipSpaces(s, i) ==
    IF i <= Len(s) /\ IsSpace(s[i]) THEN SkipSpaces(s, i + 1) ELSE i

RECURSIVE SkipDigits(_, _)
SkipDigits(s, i) ==
    IF i <= Len(s) /\ IsDigit(s[i]) THEN SkipDigits(s, i + 1) ELSE i

RECURSIVE SkipDots(_, _)
SkipDots(s, i) ==
    IF i <= Len(s) /\ IsDot(s[i]) THEN SkipDots(s, i + 1) ELSE i

\* int() of a run of decimal digits
RECURSIVE IntOf(_)
IntOf(ds) ==
    IF ds = <<>> THEN 0
    ELSE 10 * IntOf(SubSeq(ds, 1, Len(ds) - 1)) + DigitVal[ds[Len(ds)]]

(***************************************************************************)
(* PoolConfiguration.parse_time                                            *)
(***************************************************************************)
TimeUnits == {"w", "d", "h", "m", "s"}

TimeMultiplier ==
    "w" :> 7 * 24 * 60 * 60 @@ "d" :> 24 * 60 * 60 @@ "h" :> 60 * 60 @@
    "m" :> 60 @@ "s" :> 1

\* re.match(r"\s*(\d+)\s*([wdhms]?)\s*(.*)", time, re.IGNORECASE), piece by
\* piece: i, j, k, l are the positions after \s*, (\d+), \s* and ([wdhms]?)\s*.
\* Group 2 is <<>> for the empty string; group 3 stops at a line break.
TimeMatch5(time, i, j, k, hasUnit, l) ==
    IF j = i
    THEN [matched |-> FALSE]
    ELSE [matched |-> TRUE,
          g1 |-> SubSeq(time, i, j - 1),
          g2 |-> IF hasUnit THEN <<time[k]>> ELSE <<>>,
          g3 |-> SubSeq(time, l, SkipDots(time, l) - 1)]

TimeMatch4(time, i, j, k, hasUnit) ==
    TimeMatch5(time, i, j, k, hasUnit, SkipSpaces(time, IF hasUnit THEN k + 1 ELSE k))

TimeMatch3(time, i, j, k) ==
    TimeMatch4(time, i, j, k, k <= Len(time) /\ Lower(time[k]) \in TimeUnits)

TimeMatch2(time, i, j) == TimeMatch3(time, i, j, SkipSpaces(time, j))

TimeMatch1(time, i) == TimeMatch2(time, i, SkipDigits(time, i))

TimeMatch(time) == TimeMatch1(time, SkipSpaces(time, 1))

\* the `while time:` loop; yields the final `result` or the failed assertion
RECURSIVE TimeLoop(_, _, _)
TimeStep(match, result, got_anything) ==
    IF ~(got_anything \/ match.matched)
    THEN [err |-> <<"AssertionError", "time should be a number followed by optional unit">>]
    ELSE IF ~match.matched THEN [err |-> None, val |-> result]
    ELSE IF match.g2 # <<>>
    THEN TimeLoop(match.g3,
                  result + IntOf(match.g1) * TimeMultiplier[Lower(match.g2[1])],
                  TRUE)
    ELSE IF match.g3 # <<>>
    THEN [err |-> <<"AssertionError", "trailing data">>]
    ELSE IF got_anything
    THEN [err |-> <<"AssertionError", "multipart time must specify all units">>]
    ELSE TimeLoop(match.g3, result + IntOf(match.g1) * 1, TRUE)

TimeLoop(time, result, got_anything) ==
    IF time = <<>> THEN [err |-> None, val |-> result]
    ELSE TimeStep(TimeMatch(time), result, got_anything)

\* return result / divisor
TimeReturn(r, divisor) ==
    IF r.err # None THEN [called |-> TRUE, err |-> r.err]
    ELSE [called |-> TRUE, err |-> None, val |-> Frac(r.val, divisor)]

parse_time(time, divisor) == TimeReturn(TimeLoop(time, 0, FALSE), divisor)

(***************************************************************************)
(* PoolConfiguration.parse_size                                            *)
(*                                                                         *)
(* A size is the exact value num / den * 1024^exp, kept as <<num, den,     *)
(* exp>> in the normal form computed by SizeVal (the products of the       *)
(* binary prefixes do not fit the model checker's integers otherwise).     *)
(***************************************************************************)
RECURSIVE Pow(_, _)
Pow(b, n) == IF n = 0 THEN 1 ELSE b * Pow(b, n - 1)

RECURSIVE PullUp(_, _, _)
PullUp(n, d, e) == IF n % 1024 = 0 THEN PullUp(n \div 1024, d, e + 1) ELSE <<n, d, e>>

RECURSIVE PullDown(_, _, _)
PullDown(n, d, e) == IF d % 1024 = 0 THEN PullDown(n, d \div 1024, e - 1) ELSE <<n, d, e>>

PullDownOf(t) == PullDown(t[1], t[2], t[3])
SizeNorm(n, d, e, g) == PullDownOf(PullUp(n \div g, d \div g, e))
SizeVal(n, d, e) == IF n = 0 THEN <<0, 1, 0>> ELSE SizeNorm(n, d, e, Gcd(n, d))

\* a * 1024^e and a / b (b # 0) for sizes
SizeShift(a, e) == SizeVal(a[1], a[2], a[3] + e)
SizeDiv(a, b) == SizeVal(a[1] * b[2], a[2] * b[1], a[3] - b[3])

\* int() of a non-negative float
SizeInt(a) ==
    IF a[3] >= 0 THEN (a[1] * Pow(1024, a[3])) \div a[2]
    ELSE a[1] \div (a[2] * Pow(1024, 0 - a[3]))

SizePrefixes == {"k", "m", "g", "t"}

\* the multiplier table, as powers of 1024
SizeMultiplier == "k" :> 1 @@ "m" :> 2 @@ "g" :> 3 @@ "t" :> 4

\* re.match(r"\s*(\d+\.\d*|\.\d+|\d+)\s*([kmgt]?)b?\s*", size, re.IGNORECASE),
\* piece by piece: i and j delimit the leading digits, f is the end of the
\* number, k the position of the prefix.  Group 1 is kept as its integer
\* digits and its fraction digits.
SizeMatch4(size, i, j, f, k) ==
    IF ~(j > i \/ f > j + 1)
    THEN [matched |-> FALSE]
    ELSE [matched |-> TRUE,
          int |-> SubSeq(size, i, j - 1),
          frac |-> IF f > j THEN SubSeq(size, j + 1, f - 1) ELSE <<>>,
          g2 |-> IF k <= Len(size) /\ Lower(size[k]) \in SizePrefixes
                 THEN <<size[k]>> ELSE <<>>]

SizeMatch3(size, i, j, f) == SizeMatch4(size, i, j, f, SkipSpaces(size, f))

SizeMatch2(size, i, j) ==
    SizeMatch3(size, i, j,
               IF j <= Len(size) /\ size[j] = "." THEN SkipDigits(size, j + 1) ELSE j)

SizeMatch1(size, i) == SizeMatch2(size, i, SkipDigits(size, i))

SizeMatch(size) == SizeMatch1(size, SkipSpaces(size, 1))

One == <<1, 1, 0>>

\* result = float(match.group(1)); return result * multiplier / divisor
SizeReturn(match, divisor) ==
    IF ~match.matched
    THEN [called |-> TRUE,
          err |-> <<"AssertionError", "size should be a number followed by optional si prefix">>]
    ELSE [called |-> TRUE, err |-> None,
          val |-> SizeDiv(SizeShift(SizeVal(IntOf(match.int \o match.frac),
                                            Pow(10, Len(match.frac)), 0),
                                    IF match.g2 = <<>> THEN 0
                                    ELSE SizeMultiplier[Lower(match.g2[1])]),
                          divisor)]

parse_size(size, divisor) == SizeReturn(SizeMatch(size), divisor)

(***************************************************************************)
(* Module constants of pool.py                                             *)
(***************************************************************************)
FIELDS ==
    {"cloud", "command", "container", "cores_per_task", "cpu", "cycle_time",
     "disk_size", "imageset", "macros", "metal", "minimum_memory_per_core",
     "name", "parents", "platform", "scopes", "tasks"}

CPU_ALIASES ==
    "x86_64" :> "x64" @@ "amd64" :> "x64" @@ "x86-64" :> "x64" @@ "x64" :> "x64" @@
    "arm64" :> "arm64" @@ "aarch64" :> "arm64"

PROVIDERS == {"aws", "gcp"}
ARCHITECTURES == {"x64", "arm64"}

(***************************************************************************)
(* Exceptions.  arg carries the names the message is formatted with.       *)
(***************************************************************************)
NoError == [type |-> "none", msg |-> "", arg |-> {}]
Raise(type, msg, arg) == [type |-> type, msg |-> msg, arg |-> arg]

(***************************************************************************)
(* PoolConfiguration.alias_cpu                                             *)
(***************************************************************************)
\* str.lower() on the cpu names the model feeds in
LowerName(n) == CASE n = "AMD64" -> "amd64" [] n = "ARM64" -> "arm64" [] OTHER -> n

AliasLookup(lowered) ==
    IF lowered \in DOMAIN CPU_ALIASES
    THEN [err |-> NoError, val |-> CPU_ALIASES[lowered]]
    ELSE [err |-> Raise("KeyError", "", {lowered})]

alias_cpu(cpu_name) == AliasLookup(LowerName(cpu_name))

(***************************************************************************)
(* PoolConfiguration.__init__, up to the call of _flatten                  *)
(*                                                                         *)
(* data is the mapping read from the YAML document: a function from its    *)
(* keys to optional values (sizes and times are character sequences).      *)
(* The object is a function from attribute names to optional values.       *)
(***************************************************************************)
\* the two set differences of lines 117-118, under the names the code gives them
SchemaMissing(data) == DOMAIN data \ FIELDS
SchemaExtra(data) == FIELDS \ DOMAIN data

SchemaCheck(data) ==
    IF SchemaMissing(data) # {}
    THEN Raise("AssertionError", "configuration is missing fields", SchemaMissing(data))
    ELSE IF SchemaExtra(data) # {}
    THEN Raise("AssertionError", "configuration has extra fields", SchemaExtra(data))
    ELSE NoError

\* lines 134-139: .copy() and [:] need a mapping and three lists
CopyCheck(data) ==
    IF data["macros"] = None
    THEN Raise("AttributeError", "'NoneType' object has no attribute 'copy'", {"macros"})
    ELSE IF data["command"] = None
    THEN Raise("TypeError", "'NoneType' object is not subscriptable", {"command"})
    ELSE IF data["parents"] = None
    THEN Raise("TypeError", "'NoneType' object is not subscriptable", {"parents"})
    ELSE IF data["scopes"] = None
    THEN Raise("TypeError", "'NoneType' object is not subscriptable", {"scopes"})
    ELSE NoError

ParseError(e) == Raise(e[1], e[2], {})

\* the size fields: parse_size(value, parse_size("1g"))
SizeFieldOf(r) ==
    IF r.err # None THEN [err |-> ParseError(r.err)]
    ELSE [err |-> NoError, val |-> Some(r.val)]

SizeField(raw) ==
    IF raw = None THEN [err |-> NoError, val |-> None]
    ELSE SizeFieldOf(parse_size(raw[1], parse_size(<<"1", "g">>, One).val))

\* disk_size: int(parse_size(...))
DiskFieldOf(r) ==
    IF r.err # NoError \/ r.val = None THEN r
    ELSE [err |-> NoError, val |-> Some(SizeInt(r.val[1]))]

DiskField(raw) == DiskFieldOf(SizeField(raw))

\* the time field: int(parse_time(value))
TimeFieldOf(r) ==
    IF r.err # None THEN [err |-> ParseError(r.err)]
    ELSE [err |-> NoError, val |-> Some(r.val[1] \div r.val[2])]

TimeField(raw) ==
    IF raw = None THEN [err |-> NoError, val |-> None]
    ELSE TimeFieldOf(parse_time(raw[1], 1))

\* cpu = self.alias_cpu(data["cpu"]); assert cpu in ARCHITECTURES
CpuFieldOf(r) ==
    IF r.err # NoError THEN [err |-> r.err]
    ELSE IF r.val \notin ARCHITECTURES THEN [err |-> Raise("AssertionError", "", {})]
    ELSE [err |-> NoError, val |-> Some(r.val)]

CpuField(raw) ==
    IF raw = None THEN [err |-> NoError, val |-> None]
    ELSE CpuFieldOf(alias_cpu(raw[1]))

\* lines 142-168, with the four normalised values
Normalise(filename, data, mem, disk, cycle, cpu) ==
    IF mem.err # NoError THEN [err |-> mem.err]
    ELSE IF disk.err # NoError THEN [err |-> disk.err]
    ELSE IF cycle.err # NoError THEN [err |-> cycle.err]
    ELSE IF cpu.err # NoError THEN [err |-> cpu.err]
    ELSE IF data["cloud"] = None \/ data["cloud"][1] \notin PROVIDERS
    THEN [err |-> Raise("AssertionError", "Invalid cloud - use aws,gcp", {})]
    ELSE [err |-> NoError,
          obj |-> [filename |-> Some(filename),
                   container |-> data["container"],
                   cores_per_task |-> data["cores_per_task"],
                   imageset |-> data["imageset"],
                   metal |-> data["metal"],
                   name |-> data["name"],
                   platform |-> data["platform"],
                   tasks |-> data["tasks"],
                   macros |-> data["macros"],
                   command |-> data["command"],
                   parents |-> data["parents"],
                   scopes |-> data["scopes"],
                   minimum_memory_per_core |-> mem.val,
                   disk_size |-> disk.val,
                   cycle_time |-> cycle.val,
                   cpu |-> cpu.val,
                   cloud |-> data["cloud"],
                   id |-> None]]

\* (mutant) __init__ without the assertion of lines 128-129 on the name
ConstructFieldsNameless(filename, data) ==
    IF SchemaCheck(data) # NoError THEN [err |-> SchemaCheck(data)]
    ELSE IF CopyCheck(data) # NoError THEN [err |-> CopyCheck(data)]
    ELSE Normalise(filename, data,
                   SizeField(data["minimum_memory_per_core"]),
                   DiskField(data["disk_size"]),
                   TimeField(data["cycle_time"]),
                   CpuField(data["cpu"]))

ConstructFields(filename, data) ==
    IF SchemaCheck(data) # NoError THEN [err |-> SchemaCheck(data)]
    ELSE IF data["name"] = None
    THEN [err |-> Raise("AssertionError", "name is required for every configuration", {})]
    ELSE IF CopyCheck(data) # NoError THEN [err |-> CopyCheck(data)]
    ELSE Normalise(filename, data,
                   SizeField(data["minimum_memory_per_core"]),
                   DiskField(data["disk_size"]),
                   TimeField(data["cycle_time"]),
                   CpuField(data["cpu"]))

\* line 175: self.id = f"{self.platform}-{self.filename}"
WithId(obj) == [obj EXCEPT !["id"] = Some(<<obj["platform"], obj["filename"][1]>>)]

(***************************************************************************)
(* PoolConfiguration.is_complete                                           *)
(***************************************************************************)
\* (mutant) `assert getattr(self, field)`: an empty value fails too
is_complete_truthy(obj) ==
    IF \E field \in FIELDS :
          \/ obj[field] = None
          \/ field \in {"command", "macros", "scopes"} /\ obj[field][1] = <<>>
    THEN Raise("AssertionError", "", {})
    ELSE NoError

is_complete(obj) ==
    IF \E field \in FIELDS : obj[field] = None
    THEN Raise("AssertionError", "", {})
    ELSE NoError

(***************************************************************************)
(* PoolConfiguration._flatten: the body of the loop after the parent has   *)
(* been loaded (lines 189-224)                                             *)
(***************************************************************************)
OverwriteFields ==
    {"cloud", "container", "cores_per_task", "cpu", "cycle_time", "disk_size",
     "imageset", "metal", "minimum_memory_per_core", "name", "platform", "tasks"}

\* "normal" overwriting fields
Overwrite(self, parent_obj) ==
    [a \in DOMAIN self |->
        IF a \in OverwriteFields /\ self[a] = None THEN parent_obj[a] ELSE self[a]]

\* copy = parent.macros.copy(); copy.update(self.macros)
DictUpdate(copy, other) ==
    [k \in DOMAIN copy \cup DOMAIN other |-> IF k \in DOMAIN other THEN other[k] ELSE copy[k]]

\* set(a) + set(b): the operator + is not defined on two sets
SetPlus(a, b) ==
    [err |-> Raise("TypeError", "unsupported operand type(s) for +: 'set' and 'set'", {})]

\* list(s) of a set, in some order
RECURSIVE ListOf(_)
ListFrom(S, x) == <<x>> \o ListOf(S \ {x})
ListOf(S) == IF S = {} THEN <<>> ELSE ListFrom(S, CHOOSE y \in S : TRUE)

MergeScopes(over, parent_obj, plus) ==
    IF plus.err # NoError THEN [err |-> plus.err]
    ELSE [err |-> NoError,
          obj |-> [over EXCEPT
                     !["macros"] = Some(DictUpdate(parent_obj["macros"][1], over["macros"][1])),
                     !["scopes"] = Some(ListOf(plus.val)),
                     !["command"] = IF over["command"][1] = <<>>
                                    THEN parent_obj["command"] ELSE over["command"]]]

MergeRest(over, parent_obj) ==
    MergeScopes(over, parent_obj,
                SetPlus(Range(over["scopes"][1]), Range(parent_obj["scopes"][1])))

MergeParent(self, parent_obj) == MergeRest(Overwrite(self, parent_obj), parent_obj)

\* (mutant) the cycle assertion of lines 183-185 left out
CycleCheckOmitted(parent, flat) == FALSE

\* line 184: the membership test of the cycle assertion
AlreadyFlattened(parent, flat) == parent \in flat

\* (mutant) the parent is not recorded
AddFlattenedForgets(flat, parent) == flat

\* (mutant) the set keeps the last parent only
AddFlattenedLast(flat, parent) == {parent}

\* line 186: flattened.add(parent)
AddFlattened(flat, parent) == flat \cup {parent}

(***************************************************************************)
(* The pool documents                                                      *)
(***************************************************************************)
NameSeq == <<"A", "B", "C", "D">>
Names == Range(NameSeq)

\* what a document can contain, besides its parents
Kinds == {"full", "sparse", "nocloud", "noname", "missing"}

FullData(n, ps) ==
    [cloud |-> Some("aws"), command |-> Some(<<"fuzz">>), container |-> Some("img"),
     cores_per_task |-> Some(4), cpu |-> Some("AMD64"), cycle_time |-> Some(<<"1", "h">>),
     disk_size |-> Some(<<"4", "g">>), imageset |-> Some("generic"),
     macros |-> Some("A" :> "0" @@ "B" :> "2"), metal |-> Some(FALSE),
     minimum_memory_per_core |-> Some(<<"1", ".", "5", "G">>), name |-> Some(n),
     parents |-> Some(ps), platform |-> Some("linux"), scopes |-> Some(<<"s1">>),
     tasks |-> Some(2)]

SparseData(n, ps) ==
    [cloud |-> Some("gcp"), command |-> Some(<<>>), container |-> None,
     cores_per_task |-> None, cpu |-> None, cycle_time |-> None,
     disk_size |-> None, imageset |-> None,
     macros |-> Some("A" :> "1"), metal |-> None,
     minimum_memory_per_core |-> None, name |-> Some(n),
     parents |-> Some(ps), platform |-> None, scopes |-> Some(<<"s2">>),
     tasks |-> None]

RawData(n, kind, ps) ==
    CASE kind = "full" -> FullData(n, ps)
      [] kind = "sparse" -> SparseData(n, ps)
      [] kind = "nocloud" -> [FullData(n, ps) EXCEPT !["cloud"] = None]
      [] kind = "noname" -> [SparseData(n, ps) EXCEPT !["name"] = None]

\* PoolConfiguration.from_file up to the call of _flatten: the file must
\* exist, its content is handed to __init__.
from_file(pool_yml, kind, ps) ==
    IF kind = "missing" THEN [err |-> Raise("AssertionError", "Invalid file", {})]
    ELSE ConstructFields(pool_yml, RawData(pool_yml, kind, ps))

\* the content a read of `name` can find: what an earlier read found, if any
Readable(name) == IF name \in DOMAIN kindOf THEN {kindOf[name]} ELSE Kinds

(***************************************************************************)
(* Resolution of a pool file and the entry points that ask for it          *)
(***************************************************************************)
TimeIdle == time_in = <<>> /\ time_div = 1 /\ time_out = NotCalled

SizeIdle == size_in = <<>> /\ size_div = One /\ size_out = NotCalled

MachineIdle ==
    /\ machines_data = None /\ catalog = None /\ mt_error = NoError
    /\ mt_out = NotCalled /\ requery = "none"

PoolIdle ==
    /\ kindOf = <<>>
    /\ caller = "idle" /\ todo = <<>> /\ status = "idle"
    /\ stack = <<>> /\ flattened = {} /\ refs = <<>> /\ loads = <<>>
    /\ error = NoError /\ resolved = None /\ handed = <<>> /\ checked = "none"

NoParents == [n \in Names |-> <<>>]

\* the documents: at most MaxRefs parent references, spread over the files
\* in lists of at most MaxParents names
Cuts(n) ==
    {c \in [1..3 -> 0..n] :
        /\ c[1] <= c[2] /\ c[2] <= c[3]
        /\ c[1] <= MaxParents /\ c[2] - c[1] <= MaxParents
        /\ c[3] - c[2] <= MaxParents /\ n - c[3] <= MaxParents}

Spread(r, c) ==
    [n \in Names |->
        CASE n = NameSeq[1] -> SubSeq(r, 1, c[1])
          [] n = NameSeq[2] -> SubSeq(r, c[1] + 1, c[2])
          [] n = NameSeq[3] -> SubSeq(r, c[2] + 1, c[3])
          [] n = NameSeq[4] -> SubSeq(r, c[3] + 1, Len(r))]

\* the names a resolution of `roots` can come to read in the documents g
RECURSIVE Reach(_, _, _)
Reach(g, roots, fuel) ==
    IF fuel = 0 THEN roots
    ELSE Reach(g, roots \cup UNION {Range(g[n]) : n \in roots}, fuel - 1)

\* the documents that are never read carry no parents
Pruned(g) == \A n \in Names : g[n] # <<>> => n \in Reach(g, {NameSeq[1]}, Len(NameSeq))


\* the files other than the root are named in the order of their first
\* reference (one graph of each class of graphs equal up to these names)
InOrder(r) ==
    \A i \in 1..Len(r) : \A k \in 3..Len(NameSeq) :
        r[i] = NameSeq[k] => \E j \in 1..(i - 1) : r[j] = NameSeq[k - 1]

Init ==
    /\ \E r \in SeqsUpTo(Names, MaxRefs) : \E c \in Cuts(Len(r)) :
          /\ InOrder(r)
          /\ Pruned(Spread(r, c))
          /\ parentsOf = Spread(r, c)
    /\ PoolIdle
    /\ data_in = None
    /\ TimeIdle
    /\ SizeIdle
    /\ MachineIdle

\* Workflow.generate globs the pool files; Workflow.build_tasks and a direct
\* user of the class name one
GlobResults == {<<"A", "B">>}
PoolNames == {"A"}

Fail(e) ==
    /\ status' = "failed"
    /\ error' = e
    /\ stack' = <<>>

\* Workflow.generate, lines 74-93: up to the loop over the pool files
Generate ==
    /\ status = "idle" /\ data_in = None
    /\ \E files \in GlobResults : todo' = files
    /\ caller' = "generate"
    /\ status' = "next"
    /\ UNCHANGED <<parentsOf, kindOf, stack, flattened, refs, loads, error, resolved,
                   handed, checked, data_in, timeVars, sizeVars, machineVars>>

\* Workflow.build_tasks, lines 132-134
BuildTasksEntry ==
    /\ status = "idle" /\ data_in = None
    /\ \E pool_name \in PoolNames : todo' = <<pool_name>>
    /\ caller' = "build_tasks"
    /\ status' = "next"
    /\ UNCHANGED <<parentsOf, kindOf, stack, flattened, refs, loads, error, resolved,
                   handed, checked, data_in, timeVars, sizeVars, machineVars>>

\* a direct user of the class: PoolConfiguration.from_file(path), then
\* is_complete() on what it returns
ApiEntry ==
    /\ status = "idle" /\ data_in = None
    /\ \E pool_name \in PoolNames : todo' = <<pool_name>>
    /\ caller' = "api"
    /\ status' = "next"
    /\ UNCHANGED <<parentsOf, kindOf, stack, flattened, refs, loads, error, resolved,
                   handed, checked, data_in, timeVars, sizeVars, machineVars>>

\* PoolConfiguration.from_file(path) of the root: _flattened is None, so
\* __init__ starts a new set
LoadPoolAs(root, kind, r) ==
    /\ kindOf' = (root :> kind) @@ kindOf
    /\ todo' = Tail(todo)
    /\ flattened' = {}
    /\ refs' = <<>>
    /\ loads' = <<root>>
    /\ resolved' = None
    /\ checked' = "none"
    /\ IF r.err # NoError THEN Fail(r.err)
       ELSE /\ stack' = <<[obj |-> r.obj, i |-> 1]>>
            /\ status' = "resolving"
            /\ error' = NoError

LoadPoolOf(root) ==
    \E kind \in Readable(root) :
        LoadPoolAs(root, kind, from_file(root, kind, parentsOf[root]))

LoadPool ==
    /\ status = "next" /\ todo # <<>>
    /\ LoadPoolOf(Head(todo))
    /\ UNCHANGED <<parentsOf, caller, handed, data_in, timeVars, sizeVars, machineVars>>

Top == stack[Len(stack)]
TopParents == Top.obj["parents"][1]

\* self.from_file(parent, flattened): the parent's __init__ starts
LoadParentAs(parent, kind, r) ==
    /\ flattened' = AddFlattened(flattened, parent)
    /\ loads' = Append(loads, parent)
    /\ kindOf' = (parent :> kind) @@ kindOf
    /\ IF r.err # NoError THEN Fail(r.err)
       ELSE /\ stack' = Append(stack, [obj |-> r.obj, i |-> 1])
            /\ UNCHANGED <<status, error>>

FlattenParentOf(parent) ==
    /\ refs' = Append(refs, parent)
    /\ IF AlreadyFlattened(parent, flattened)
       THEN /\ Fail(Raise("AssertionError", "attempt to resolve cyclic configuration",
                          {parent}))
            /\ UNCHANGED <<kindOf, flattened, loads>>
       ELSE \E kind \in Readable(parent) :
                LoadParentAs(parent, kind, from_file(parent, kind, parentsOf[parent]))

\* _flatten, lines 182-187: the next parent of the innermost configuration
FlattenParent ==
    /\ status = "resolving" /\ Top.i <= Len(TopParents)
    /\ Len(stack) < MaxDepth
    /\ FlattenParentOf(TopParents[Top.i])
    /\ UNCHANGED <<parentsOf, caller, todo, resolved, handed, checked, data_in, timeVars, sizeVars, machineVars>>

MergeInto(below, m) ==
    IF m.err # NoError THEN Fail(m.err)
    ELSE /\ stack' = Append(SubSeq(stack, 1, Len(stack) - 2),
                            [obj |-> m.obj, i |-> below.i + 1])
         /\ UNCHANGED <<status, error>>

MergeBelow(below) == MergeInto(below, MergeParent(below.obj, WithId(Top.obj)))

\* the parent's __init__ returns (lines 172-175) and the loop body of the
\* child merges it (lines 189-224)
FlattenMerge ==
    /\ status = "resolving" /\ Top.i > Len(TopParents)
    /\ Len(stack) > 1
    /\ MergeBelow(stack[Len(stack) - 1])
    /\ UNCHANGED <<parentsOf, kindOf, caller, todo, flattened, refs, loads, resolved,
                   handed, checked, data_in, timeVars, sizeVars, machineVars>>

\* the root's __init__ returns (lines 172-175): the entry point holds the
\* configuration
ReturnPool ==
    /\ status = "resolving" /\ Top.i > Len(TopParents)
    /\ Len(stack) = 1
    /\ resolved' = Some(WithId(Top.obj))
    /\ status' = "resolved"
    /\ stack' = <<>>
    /\ UNCHANGED <<parentsOf, kindOf, caller, todo, flattened, refs, loads, error,
                   handed, checked, data_in, timeVars, sizeVars, machineVars>>

Handed(consumer) == [to |-> consumer, cfg |-> resolved[1], checked |-> checked]

\* Workflow.generate, line 97: pool_config.build_resources(clouds, machines),
\* which passes the configuration to get_machine_list and the provider
BuildResources ==
    /\ status = "resolved" /\ caller = "generate"
    /\ handed' = Append(handed, Handed("build_resources"))
    /\ status' = IF todo = <<>> THEN "done" ELSE "next"
    /\ UNCHANGED <<parentsOf, kindOf, caller, todo, stack, flattened, refs, loads, error,
                   resolved, checked, data_in, timeVars, sizeVars, machineVars>>

\* Workflow.build_tasks, lines 138-144: pool_config.build_tasks(task_id) and
\* the loop that creates the tasks; range(1, self.tasks + 1) and
\* timedelta(seconds=self.cycle_time) need both values
BuildTasks ==
    /\ status = "resolved" /\ caller = "build_tasks"
    /\ handed' = Append(handed, Handed("build_tasks"))
    /\ IF resolved[1]["tasks"] = None \/ resolved[1]["cycle_time"] = None
       THEN /\ status' = "failed"
            /\ error' = Raise("TypeError", "", {})
       ELSE /\ status' = "done"
            /\ UNCHANGED error
    /\ UNCHANGED <<parentsOf, kindOf, caller, todo, stack, flattened, refs, loads,
                   resolved, checked, data_in, timeVars, sizeVars, machineVars>>

IsCompleteAs(e) ==
    /\ checked' = IF e = NoError THEN "pass" ELSE "fail"
    /\ IF e = NoError THEN UNCHANGED <<status, error>>
       ELSE status' = "failed" /\ error' = e

\* PoolConfiguration.is_complete on the configuration the direct user holds
IsComplete ==
    /\ status = "resolved" /\ caller = "api" /\ checked = "none"
    /\ IsCompleteAs(is_complete(resolved[1]))
    /\ UNCHANGED <<parentsOf, kindOf, caller, todo, stack, flattened, refs, loads,
                   resolved, handed, data_in, timeVars, sizeVars, machineVars>>

Next ==
    \/ Generate
    \/ BuildTasksEntry
    \/ ApiEntry
    \/ LoadPool
    \/ FlattenParent
    \/ FlattenMerge
    \/ ReturnPool
    \/ BuildResources
    \/ BuildTasks
    \/ IsComplete

Spec == Init /\ [][Next]_vars

(***************************************************************************)
(* A direct user of the class: PoolConfiguration(filename, data) on a raw  *)
(* mapping without parents, then is_complete()                             *)
(***************************************************************************)
ExtraKeys == {"owner", "schedule"}

\* the values a field can take besides the one of the full document
AltCount(k) ==
    IF k \in {"command", "macros", "scopes", "cloud", "cpu", "cycle_time", "disk_size"}
    THEN 2 ELSE 1

AltValue(k, n) ==
    CASE k \in {"command", "macros", "scopes"} /\ n = 1 -> Some(<<>>)
      [] k = "cloud" /\ n = 2 -> Some("azure")
      [] k = "cpu" /\ n = 2 -> Some("mips")
      [] k = "cycle_time" /\ n = 2 -> Some(<<"1", "h", "3">>)
      [] k = "disk_size" /\ n = 2 -> Some(<<"g">>)
      [] OTHER -> None

\* the full document with the fields of S changed: c[k] = 0 leaves the key
\* out, c[k] = n > 0 gives it its n-th other value; the keys of extra are added
VariedData(S, c, extra) ==
    [k \in (FIELDS \ {f \in S : c[f] = 0}) \cup extra |->
        IF k \in extra THEN Some("x")
        ELSE IF k \in S THEN AltValue(k, c[k])
        ELSE FullData("A", <<>>)[k]]

InitData ==
    /\ \E s \in SeqsUpTo(FIELDS, MaxVaried) :
         \E c \in [Range(s) -> 0..2] :
           \E extra \in SUBSET ExtraKeys :
             /\ \A k \in Range(s) : c[k] <= AltCount(k)
             /\ data_in = Some(VariedData(Range(s), c, extra))
    /\ parentsOf = NoParents
    /\ PoolIdle
    /\ TimeIdle
    /\ SizeIdle
    /\ MachineIdle

ConstructAs(r) ==
    IF r.err # NoError THEN Fail(r.err)
    ELSE /\ stack' = <<[obj |-> r.obj, i |-> 1]>>
         /\ status' = "resolving"
         /\ error' = NoError

\* PoolConfiguration("A", data): __init__ up to its call of _flatten
Construct ==
    /\ status = "idle" /\ data_in # None
    /\ caller' = "api"
    /\ ConstructAs(ConstructFields("A", data_in[1]))
    /\ UNCHANGED <<parentsOf, kindOf, todo, flattened, refs, loads, resolved, handed,
                   checked, data_in, timeVars, sizeVars, machineVars>>

NextData ==
    \/ Construct
    \/ ReturnPool
    \/ IsComplete

SpecData == InitData /\ [][NextData]_vars

(***************************************************************************)
(* parse_time on bounded inputs                                            *)
(***************************************************************************)
TimeAlphabet == {"1", "3", "h", "m", "S", " ", "\n", "x"}
TimeDivisors == {1, 60}

InitTime ==
    /\ time_in \in SeqsUpTo(TimeAlphabet, MaxTimeLen)
    /\ time_div \in TimeDivisors
    /\ time_out = NotCalled
    /\ parentsOf = NoParents
    /\ PoolIdle
    /\ data_in = None
    /\ SizeIdle
    /\ MachineIdle

CallParseTime ==
    /\ ~time_out.called
    /\ time_out' = parse_time(time_in, time_div)
    /\ UNCHANGED <<time_in, time_div, poolVars, data_in, sizeVars, machineVars>>

NextTime == CallParseTime

SpecTime == InitTime /\ [][NextTime]_vars

(***************************************************************************)
(* parse_size on bounded inputs                                            *)
(***************************************************************************)
SizeAlphabet == {"4", ".", "g", "K", "b", " ", "x"}

\* divisor=1 and divisor=1024
SizeDivisors == {One, <<1, 1, 1>>}

InitSize ==
    /\ size_in \in SeqsUpTo(SizeAlphabet, MaxSizeLen)
    /\ size_div \in SizeDivisors
    /\ size_out = NotCalled
    /\ parentsOf = NoParents
    /\ PoolIdle
    /\ data_in = None
    /\ TimeIdle
    /\ MachineIdle

CallParseSize ==
    /\ ~size_out.called
    /\ size_out' = parse_size(size_in, size_div)
    /\ UNCHANGED <<size_in, size_div, poolVars, data_in, timeVars, machineVars>>

NextSize == CallParseSize

SpecSize == InitSize /\ [][NextSize]_vars

(***************************************************************************)
(* MachineTypes.  A dict is a sequence of [k, v] entries in insertion      *)
(* order; a machine spec is a function from its keys to its values.        *)
(***************************************************************************)
HasKey(d, key) == \E i \in 1..Len(d) : d[i].k = key
Get(d, key) == d[CHOOSE i \in 1..Len(d) : d[i].k = key].v

\* the first exception of a sequence of checks made in this order
FirstError(errs) ==
    IF \A i \in 1..Len(errs) : errs[i] = NoError THEN NoError
    ELSE errs[CHOOSE i \in 1..Len(errs) :
                /\ errs[i] # NoError
                /\ \A j \in 1..(i - 1) : errs[j] = NoError]

\* (mutant) only the required keys are checked
SpecErrorRequiredOnly(spec) ==
    IF {"cpu", "ram"} \ DOMAIN spec # {}
    THEN Raise("AssertionError", "missing required keys", {"cpu", "ram"} \ DOMAIN spec)
    ELSE NoError

\* lines 54-61: the two assertions on one machine spec
SpecError(spec) ==
    IF {"cpu", "ram"} \ DOMAIN spec # {}
    THEN Raise("AssertionError", "missing required keys", {"cpu", "ram"} \ DOMAIN spec)
    ELSE IF DOMAIN spec \ {"cpu", "ram", "metal"} # {}
    THEN Raise("AssertionError", "has unknown keys", DOMAIN spec \ {"cpu", "ram", "metal"})
    ELSE NoError

\* lines 53-61: for machine, spec in machines.items()
MachinesError(machines) ==
    FirstError([i \in 1..Len(machines) |-> SpecError(machines[i].v)])

\* lines 51-61: for arch, machines in provider_archs.items()
ArchError(arch) ==
    IF arch.k \notin ARCHITECTURES
    THEN Raise("AssertionError", "unknown architecture", {arch.k})
    ELSE MachinesError(arch.v)

ArchsError(provider_archs) ==
    FirstError([i \in 1..Len(provider_archs) |-> ArchError(provider_archs[i])])

\* lines 49-61: for provider, provider_archs in machines_data.items()
ProviderError(provider) ==
    IF provider.k \notin PROVIDERS
    THEN Raise("AssertionError", "unknown provider", {provider.k})
    ELSE ArchsError(provider.v)

\* MachineTypes.__init__: the exception it raises, or NoError when it
\* reaches self._data = machines_data
MachineTypesError(data) ==
    FirstError([i \in 1..Len(data) |-> ProviderError(data[i])])

\* self._data[provider][architecture], or the KeyError of the lookup
Machines(data, provider, architecture) ==
    IF provider = None \/ ~HasKey(data, provider[1])
    THEN [err |-> Raise("KeyError", "", {})]
    ELSE IF architecture = None \/ ~HasKey(Get(data, provider[1]), architecture[1])
    THEN [err |-> Raise("KeyError", "", {})]
    ELSE [err |-> NoError, val |-> Get(Get(data, provider[1]), architecture[1])]

\* MachineTypes.cpus
CpusOf(ms, machine) ==
    IF ms.err # NoError THEN [err |-> ms.err, val |-> <<>>]
    ELSE IF ~HasKey(ms.val, machine) THEN [err |-> Raise("KeyError", "", {machine}), val |-> <<>>]
    ELSE [err |-> NoError, val |-> <<Get(ms.val, machine)["cpu"]>>]

cpus(data, provider, architecture, machine) ==
    CpusOf(Machines(data, provider, architecture), machine)

\* (spec["ram"] / spec["cpu"]) >= min_ram_per_cpu, the right side a size
RamPerCpuGe(ram, cpu, m) ==
    IF m[3] >= 0 THEN ram * m[2] >= m[1] * Pow(1024, m[3]) * cpu
    ELSE ram * m[2] * Pow(1024, 0 - m[3]) >= m[1] * cpu

\* (mutant) the metal requirement is not looked at
MetalIgnored(spec, metal) == TRUE

\* not metal or (metal and spec.get("metal", False))
MetalOk(spec, metal) ==
    \/ metal = None
    \/ ~metal[1]
    \/ "metal" \in DOMAIN spec /\ spec["metal"]

\* (mutant) the loop without the test of the cpu count
RECURSIVE FilterLoopAnyCpu(_, _, _, _, _, _)
FilterLoopAnyCpu(machines, i, min_cpu, min_ram_per_cpu, metal, yielded) ==
    IF i > Len(machines) THEN [err |-> NoError, val |-> yielded]
    ELSE IF min_cpu = None \/ min_ram_per_cpu = None
    THEN [err |-> Raise("TypeError", "'>=' not supported", {}), val |-> yielded]
    ELSE IF /\ RamPerCpuGe(machines[i].v["ram"], machines[i].v["cpu"], min_ram_per_cpu[1])
            /\ MetalOk(machines[i].v, metal)
    THEN FilterLoopAnyCpu(machines, i + 1, min_cpu, min_ram_per_cpu, metal,
                          Append(yielded, machines[i].k))
    ELSE FilterLoopAnyCpu(machines, i + 1, min_cpu, min_ram_per_cpu, metal, yielded)

\* lines 85-91: the loop of the generator; yielded is what it has produced
\* when it ends or raises.  A comparison with None raises TypeError.
RECURSIVE FilterLoop(_, _, _, _, _, _)
FilterLoop(machines, i, min_cpu, min_ram_per_cpu, metal, yielded) ==
    IF i > Len(machines) THEN [err |-> NoError, val |-> yielded]
    ELSE IF min_cpu = None
    THEN [err |-> Raise("TypeError", "'>=' not supported", {}), val |-> yielded]
    ELSE IF machines[i].v["cpu"] < min_cpu[1]
    THEN FilterLoop(machines, i + 1, min_cpu, min_ram_per_cpu, metal, yielded)
    ELSE IF min_ram_per_cpu = None
    THEN [err |-> Raise("TypeError", "'>=' not supported", {}), val |-> yielded]
    ELSE IF /\ RamPerCpuGe(machines[i].v["ram"], machines[i].v["cpu"], min_ram_per_cpu[1])
            /\ MetalOk(machines[i].v, metal)
    THEN FilterLoop(machines, i + 1, min_cpu, min_ram_per_cpu, metal,
                    Append(yielded, machines[i].k))
    ELSE FilterLoop(machines, i + 1, min_cpu, min_ram_per_cpu, metal, yielded)

FilterOf(ms, min_cpu, min_ram_per_cpu, metal) ==
    IF ms.err # NoError THEN [err |-> ms.err, val |-> <<>>]
    ELSE FilterLoop(ms.val, 1, min_cpu, min_ram_per_cpu, metal, <<>>)

\* MachineTypes.filter, run to its end
filter(data, provider, architecture, min_cpu, min_ram_per_cpu, metal) ==
    FilterOf(Machines(data, provider, architecture), min_cpu, min_ram_per_cpu, metal)

\* (mutant) the capacity is rounded up
RECURSIVE MachineListLoopUp(_, _, _, _, _)
MachineListLoopUp(ms, names, i, cores_per_task, yielded) ==
    IF i > Len(names) THEN yielded
    ELSE MachineListLoopUp(ms, names, i + 1, cores_per_task,
                           Append(yielded,
                                  <<names[i],
                                    (Get(ms, names[i])["cpu"] + cores_per_task - 1)
                                        \div cores_per_task>>))

\* lines 241-242 for the machines the filter yields: cpus // cores_per_task
RECURSIVE MachineListLoop(_, _, _, _, _)
MachineListLoop(ms, names, i, cores_per_task, yielded) ==
    IF i > Len(names) THEN yielded
    ELSE MachineListLoop(ms, names, i + 1, cores_per_task,
                         Append(yielded,
                                <<names[i], Get(ms, names[i])["cpu"] \div cores_per_task>>))

\* a machine is yielded by the filter only when cores_per_task compares with
\* its cpu count, so cores_per_task is a number here; 0 raises on the first
MachineListOf(ms, f, cores_per_task) ==
    IF f.err # NoError THEN [err |-> f.err, val |-> <<>>]
    ELSE IF f.val = <<>> THEN [err |-> NoError, val |-> <<>>]
    ELSE IF cores_per_task[1] = 0
    THEN [err |-> Raise("ZeroDivisionError", "integer division or modulo by zero", {}),
          val |-> <<>>]
    ELSE [err |-> NoError,
          val |-> MachineListLoop(ms.val, f.val, 1, cores_per_task[1], <<>>)]

\* PoolConfiguration.get_machine_list, run to its end
get_machine_list(self, data) ==
    MachineListOf(Machines(data, self["cloud"], self["cpu"]),
                  filter(data, self["cloud"], self["cpu"], self["cores_per_task"],
                         self["minimum_memory_per_core"], self["metal"]),
                  self["cores_per_task"])

(***************************************************************************)
(* The machine catalog and the queries made on it                          *)
(***************************************************************************)
\* the machines a machines.yml can list; the last two are not valid specs
MachinePool ==
    <<[k |-> "small", v |-> [cpu |-> 2, ram |-> 4]],
      [k |-> "big", v |-> [cpu |-> 8, ram |-> 16, metal |-> TRUE]],
      [k |-> "lean", v |-> [cpu |-> 8, ram |-> 4, metal |-> FALSE]],
      [k |-> "odd", v |-> [cpu |-> 3, ram |-> 12]],
      [k |-> "noram", v |-> [cpu |-> 2]],
      [k |-> "gpu", v |-> [cpu |-> 2, ram |-> 4, gpu |-> 1]]>>

MachineNames == {MachinePool[i].k : i \in 1..Len(MachinePool)}

\* lists of at most MaxMachines different machines, in any order
MachineLists ==
    {[i \in 1..Len(s) |-> MachinePool[s[i]]] :
        s \in {t \in SeqsUpTo(1..Len(MachinePool), MaxMachines) :
                 \A i, j \in 1..Len(t) : i # j => t[i] # t[j]}}

\* the providers of a catalog and the architectures under each of them
CatalogShapes ==
    {<<<<"aws">>, <<"x64">>>>, <<<<"aws", "gcp">>, <<"x64", "arm64">>>>,
     <<<<"azure", "aws">>, <<"x64">>>>, <<<<"aws">>, <<"x64", "mips">>>>}

Standard == <<[k |-> "std", v |-> [cpu |-> 4, ram |-> 16]]>>

\* a catalog with the machines ms under aws.x64 and Standard elsewhere
CatalogOf(ps, as, ms) ==
    [p \in 1..Len(ps) |->
        [k |-> ps[p],
         v |-> [a \in 1..Len(as) |->
                  [k |-> as[a],
                   v |-> IF ps[p] = "aws" /\ as[a] = "x64" THEN ms ELSE Standard]]]]

\* the pool configurations that ask for machines: a resolved configuration
\* with every field set, or with cores_per_task left unset
PoolOf(cpu, cores_per_task, metal) ==
    [WithId(ConstructFields("A", FullData("A", <<>>)).obj) EXCEPT
        !["cpu"] = Some(cpu),
        !["cores_per_task"] = cores_per_task,
        !["metal"] = Some(metal)]

CoresChoices == {None, Some(0), Some(1), Some(3)}

InitMachines ==
    /\ \E shape \in CatalogShapes : \E ms \in MachineLists :
          machines_data = Some(CatalogOf(shape[1], shape[2], ms))
    /\ \E cpu \in ARCHITECTURES : \E cores \in CoresChoices : \E metal \in BOOLEAN :
          resolved = Some(PoolOf(cpu, cores, metal))
    /\ catalog = None /\ mt_error = NoError /\ mt_out = NotCalled /\ requery = "none"
    /\ parentsOf = NoParents /\ kindOf = <<>>
    /\ caller = "api" /\ todo = <<>> /\ status = "resolved"
    /\ stack = <<>> /\ flattened = {} /\ refs = <<>> /\ loads = <<>>
    /\ error = NoError /\ handed = <<>> /\ checked = "none"
    /\ data_in = None
    /\ TimeIdle
    /\ SizeIdle

NewMachineTypesAs(e) ==
    IF e # NoError THEN mt_error' = e /\ UNCHANGED catalog
    ELSE catalog' = machines_data /\ UNCHANGED mt_error

\* MachineTypes(machines_data)
NewMachineTypes ==
    /\ catalog = None /\ mt_error = NoError
    /\ NewMachineTypesAs(MachineTypesError(machines_data[1]))
    /\ UNCHANGED <<machines_data, mt_out, requery, poolVars, data_in, timeVars, sizeVars>>

\* a query and its outcome; a query equal to the one before it is compared
\* with it
Query(op, args, r) ==
    /\ mt_out' = [called |-> TRUE, op |-> op, args |-> args, err |-> r.err, val |-> r.val]
    /\ requery' = IF mt_out.called /\ mt_out.op = op /\ mt_out.args = args
                  THEN IF mt_out.err = r.err /\ mt_out.val = r.val
                       THEN "same" ELSE "differs"
                  ELSE requery
    /\ UNCHANGED <<machines_data, catalog, mt_error, poolVars, data_in, timeVars, sizeVars>>

\* the places the queries look at: aws.x64, and one that holds the standard
\* machine or is absent
FilterTargets == {<<"aws", "x64">>, <<"gcp", "arm64">>}
CpusTargets == {<<"aws", "x64", "small">>, <<"aws", "x64", "std">>, <<"gcp", "arm64", "std">>}

\* machine_types.cpus(provider, architecture, machine)
Cpus ==
    /\ catalog # None
    /\ \E q \in CpusTargets :
          Query("cpus", q, cpus(catalog[1], Some(q[1]), Some(q[2]), q[3]))

\* (mutant) the sequence of the filter query before is handed out again
FilterCallCached(prev, data, provider, architecture, min_cpu, min_ram_per_cpu, metal) ==
    IF prev.called /\ prev.op = "filter" THEN [err |-> prev.err, val |-> prev.val]
    ELSE filter(data, provider, architecture, min_cpu, min_ram_per_cpu, metal)

\* the filter runs anew on every call: nothing of the query before it (prev)
\* is kept
FilterCall(prev, data, provider, architecture, min_cpu, min_ram_per_cpu, metal) ==
    filter(data, provider, architecture, min_cpu, min_ram_per_cpu, metal)

MinCpus == {2, 3}

\* 1.0 and 2.5
MinRams == {<<1, 1, 0>>, <<5, 2, 0>>}

\* list(machine_types.filter(provider, architecture, min_cpu, min_ram_per_cpu, metal))
Filter ==
    /\ catalog # None
    /\ \E q \in FilterTargets :
       \E min_cpu \in MinCpus : \E min_ram_per_cpu \in MinRams : \E metal \in BOOLEAN :
          Query("filter", <<q[1], q[2], min_cpu, min_ram_per_cpu, metal>>,
                FilterCall(mt_out, catalog[1], Some(q[1]), Some(q[2]),
                           Some(min_cpu), Some(min_ram_per_cpu), Some(metal)))

\* list(pool.get_machine_list(machine_types))
GetMachineList ==
    /\ catalog # None /\ resolved # None
    /\ Query("get_machine_list", <<>>, get_machine_list(resolved[1], catalog[1]))

NextMachines ==
    \/ NewMachineTypes
    \/ Cpus
    \/ Filter
    \/ GetMachineList

SpecMachines == InitMachines /\ [][NextMachines]_vars

(***************************************************************************)
(* Properties                                                              *)
(***************************************************************************)
CycleMsg == "attempt to resolve cyclic configuration"
IsCycleError(e) == e.type = "AssertionError" /\ e.msg = CycleMsg

\* the resolution of the current root has ended without a configuration
ResolutionFailed == status = "failed" /\ resolved = None

\* the parent references of the ancestry of n in the documents g, in the
\* order a depth-first walk meets them (fuel cuts a cyclic ancestry)
RECURSIVE Walk(_, _, _)
RECURSIVE WalkList(_, _, _, _)
WalkList(g, ps, i, fuel) ==
    IF i > Len(ps) THEN <<>>
    ELSE <<ps[i]>> \o Walk(g, ps[i], fuel - 1) \o WalkList(g, ps, i + 1, fuel)
Walk(g, n, fuel) == IF fuel = 0 THEN <<>> ELSE WalkList(g, g[n], 1, fuel)

Ancestry(n) == Walk(parentsOf, n, Cardinality(Names) + 1)

NoRepeat(w) == Cardinality(Range(w)) = Len(w)

\* the ancestry of root is acyclic, names no document twice, and every one
\* of its documents has been read and found loadable and schema-valid
Clean(root) ==
    /\ NoRepeat(<<root>> \o Ancestry(root))
    /\ \A n \in {root} \cup Range(Ancestry(root)) :
          n \in DOMAIN kindOf /\ kindOf[n] \in {"full", "sparse"}

\* the values a document declares itself, normalised
Own(n) == ConstructFields(n, RawData(n, kindOf[n], parentsOf[n])).obj

\* the merge the specification describes, of one resolved parent r into acc
ClaimedMerge(acc, r) ==
    [a \in DOMAIN acc |->
        CASE a \in OverwriteFields -> IF acc[a] = None THEN r[a] ELSE acc[a]
          [] a = "macros" ->
                Some([k \in DOMAIN acc[a][1] \cup DOMAIN r[a][1] |->
                        IF k \in DOMAIN acc[a][1] THEN acc[a][1][k] ELSE r[a][1][k]])
          [] a = "scopes" -> Some(Range(acc[a][1]) \cup Range(r[a][1]))
          [] a = "command" -> IF acc[a][1] = <<>> THEN r[a] ELSE acc[a]
          [] OTHER -> acc[a]]

\* the resolved configuration the specification describes (scopes as a set)
RECURSIVE Claimed(_)
RECURSIVE ClaimedFrom(_, _, _)
ClaimedFrom(acc, ps, i) ==
    IF i > Len(ps) THEN acc
    ELSE ClaimedFrom(ClaimedMerge(acc, Claimed(ps[i])), ps, i + 1)
Claimed(n) ==
    ClaimedFrom([Own(n) EXCEPT !["scopes"] = Some(Range(Own(n)["scopes"][1]))],
                parentsOf[n], 1)

\* the resolution of the current root has ended, and its ancestry is clean
EndedClean == loads # <<>> /\ status # "resolving" /\ Clean(loads[1])

Diamond(g) ==
    \E b, c, d \in Names \ {NameSeq[1]} :
        /\ b # c /\ b # d /\ c # d
        /\ g[NameSeq[1]] = <<b, c>>
        /\ g[b] = <<d>> /\ g[c] = <<d>> /\ g[d] = <<>>

C3_OverwriteIfUnset ==
    EndedClean =>
        /\ resolved # None
        /\ \A f \in OverwriteFields : resolved[1][f] = Claimed(loads[1])[f]

\* C4: the resolution of a root with a clean ancestry yields the macros of the
\* root and of all its parents' resolved macros, the child's value kept for a
\* key it has and the earliest parent's value for a key only parents have.
C4_MacrosMerged ==
    EndedClean =>
        /\ resolved # None
        /\ resolved[1]["macros"] = Claimed(loads[1])["macros"]

\* C5: the resolution of a root with a clean ancestry completes, and its
\* scopes are the set union of its own scopes and its parents' resolved scopes.
C5_ScopesUnion ==
    EndedClean =>
        /\ resolved # None
        /\ Range(resolved[1]["scopes"][1]) = Claimed(loads[1])["scopes"][1]

\* C6: the resolution of a root with a clean ancestry yields the root's own
\* command when it is not empty, and otherwise a copy of the resolved command
\* of the first parent that has one.
C6_CommandFallback ==
    EndedClean =>
        /\ resolved # None
        /\ resolved[1]["command"] = Claimed(loads[1])["command"]

\* C7: a configuration is handed to build_resources (and through it to
\* get_machine_list) or to build_tasks only after the completeness check has
\* passed on it, so never with a declared field still unset.
C7_CheckedBeforeUse ==
    \A i \in 1..Len(handed) :
        /\ handed[i].checked = "pass"
        /\ \A f \in FIELDS : handed[i].cfg[f] # None

EmptyAllowed == {"command", "macros", "scopes"}

\* C8 as stated: is_complete succeeds only if every declared field is
\* non-null and command, scopes and macros are not empty.
C8_NonNullNonEmpty ==
    checked = "pass" =>
        /\ \A f \in FIELDS : resolved[1][f] # None
        /\ \A f \in EmptyAllowed : resolved[1][f][1] # <<>>

\* C8 as amended: is_complete succeeds exactly when every declared field is
\* non-null; an empty command, scopes or macros does not make it fail.
C8_NonNullOnly ==
    checked # "none" =>
        (checked = "pass" <=> \A f \in FIELDS : resolved[1][f] # None)

\* is_complete has passed on a configuration whose command is empty
C8_Witness ==
    /\ checked = "pass"
    /\ resolved[1]["command"] = Some(<<>>)

\* __init__ has failed on the field set of its data
SchemaFailed ==
    /\ ResolutionFailed
    /\ error.msg \in {"configuration is missing fields", "configuration has extra fields"}

\* C9: construction fails on the field set exactly when the keys of the
\* mapping differ from FIELDS; the fields it reports as missing are declared
\* fields absent from the mapping, those it reports as extra are keys of the
\* mapping that are not declared.
C9_SchemaErrorNames ==
    (data_in # None /\ status # "idle") =>
        /\ SchemaFailed <=> DOMAIN data_in[1] # FIELDS
        /\ (SchemaFailed /\ error.msg = "configuration is missing fields")
              => error.arg = FIELDS \ DOMAIN data_in[1]
        /\ (SchemaFailed /\ error.msg = "configuration has extra fields")
              => error.arg = DOMAIN data_in[1] \ FIELDS

\* the duration grammar of the claim: <integer><unit> pairs, white space
\* allowed between two tokens; the sum of the pairs, or -1 off the grammar
RECURSIVE PairsValue(_, _, _)
PairsValue(s, i, acc) ==
    LET j == SkipDigits(s, i)
        k == SkipSpaces(s, j)
        n == SkipSpaces(s, k + 1)
    IN  IF j = i \/ k > Len(s) \/ Lower(s[k]) \notin TimeUnits THEN 0 - 1
        ELSE IF k = Len(s)
             THEN acc + IntOf(SubSeq(s, i, j - 1)) * TimeMultiplier[Lower(s[k])]
             ELSE IF n > Len(s) THEN 0 - 1
             ELSE PairsValue(s, n, acc + IntOf(SubSeq(s, i, j - 1))
                                           * TimeMultiplier[Lower(s[k])])

ClaimedSeconds(s) ==
    IF s # <<>> /\ \A i \in 1..Len(s) : IsDigit(s[i]) THEN IntOf(s)
    ELSE PairsValue(s, 1, 0)

\* C10: on a string of the duration grammar, or a bare integer, parse_time
\* returns the sum of value x unit-seconds divided by the divisor.
C10_SumOfPairs ==
    (time_out.called /\ ClaimedSeconds(time_in) >= 0) =>
        /\ time_out.err = None
        /\ time_out.val = Frac(ClaimedSeconds(time_in), time_div)

\* s without its leading and trailing white space
RECURSIVE StripRight(_)
StripRight(s) ==
    IF s # <<>> /\ IsSpace(s[Len(s)]) THEN StripRight(SubSeq(s, 1, Len(s) - 1)) ELSE s

Strip(s) == StripRight(SubSeq(s, SkipSpaces(s, 1), Len(s)))

\* C11: parse_time returns a value only for a string that is, in its entirety
\* (white space around it aside), a bare integer or a sequence of
\* <integer><unit> pairs; on every other string, the empty one included, it
\* fails.
C11_ValueOnlyIfWellFormed ==
    (time_out.called /\ time_out.err = None) => ClaimedSeconds(Strip(time_in)) >= 0

\* the size grammar of the claim: white space, a numeric literal, an optional
\* prefix of k, m, g, t, an optional b, white space (white space is allowed
\* before the prefix too); f is the end of the literal
SizeFormEnd(s, p) ==
    SkipSpaces(s, IF p <= Len(s) /\ Lower(s[p]) = "b" THEN p + 1 ELSE p) = Len(s) + 1

SizeFormTail(s, k) ==
    SizeFormEnd(s, IF k <= Len(s) /\ Lower(s[k]) \in SizePrefixes THEN k + 1 ELSE k)

SizeForm(s) ==
    LET i == SkipSpaces(s, 1)
        j == SkipDigits(s, i)
        f == IF j <= Len(s) /\ s[j] = "." THEN SkipDigits(s, j + 1) ELSE j
    IN  /\ j > i \/ f > j + 1
        /\ SizeFormTail(s, SkipSpaces(s, f))

\* the value of the claim for a string of the grammar: number x 1024^prefix
ClaimedSize(s) ==
    LET i == SkipSpaces(s, 1)
        j == SkipDigits(s, i)
        f == IF j <= Len(s) /\ s[j] = "." THEN SkipDigits(s, j + 1) ELSE j
        k == SkipSpaces(s, f)
        digits == SubSeq(s, i, j - 1) \o (IF f > j THEN SubSeq(s, j + 1, f - 1) ELSE <<>>)
        places == IF f > j THEN f - j - 1 ELSE 0
    IN  SizeVal(IntOf(digits), Pow(10, places),
                IF k <= Len(s) /\ Lower(s[k]) \in SizePrefixes
                THEN SizeMultiplier[Lower(s[k])] ELSE 0)

\* C12: parse_size returns a value exactly on the strings of the size grammar,
\* there number x 1024^prefix divided by the divisor, and fails on every other
\* string, one with an unknown prefix or with text after the number included.
C12_DefinedExactlyOnForm ==
    size_out.called =>
        /\ size_out.err = None <=> SizeForm(size_in)
        /\ SizeForm(size_in) =>
              /\ size_out.err = None
              /\ size_out.val = SizeDiv(ClaimedSize(size_in), size_div)

\* the last query was `op` and found catalog[provider][architecture]
Asked(op) == mt_out.called /\ mt_out.op = op

Found(provider, architecture) ==
    /\ HasKey(catalog[1], provider)
    /\ HasKey(Get(catalog[1], provider), architecture)

Under(provider, architecture) == Get(Get(catalog[1], provider), architecture)

\* the condition of the claim on one machine spec; minRam is n / d
Fits(spec, minCores, minRam, requireMetal) ==
    /\ spec["cpu"] >= minCores
    /\ spec["ram"] * minRam[2] >= minRam[1] * spec["cpu"]
    /\ ~requireMetal \/ ("metal" \in DOMAIN spec /\ spec["metal"])

\* the names of the entries of ms that fit, in the order of ms
RECURSIVE Fitting(_, _, _, _)
Fitting(ms, minCores, minRam, requireMetal) ==
    IF ms = <<>> THEN <<>>
    ELSE (IF Fits(ms[1].v, minCores, minRam, requireMetal) THEN <<ms[1].k>> ELSE <<>>)
         \o Fitting(Tail(ms), minCores, minRam, requireMetal)

\* C13: filter(provider, architecture, minCores, minRAMPerCore, requireMetal)
\* on a catalog that has catalog[provider][architecture] yields exactly the
\* names there whose spec has cpu >= minCores, ram / cpu >= minRAMPerCore and
\* metal true when metal is required, each once, in the catalog's order.
C13_FilterExact ==
    (Asked("filter") /\ Found(mt_out.args[1], mt_out.args[2])) =>
        /\ mt_out.err = NoError
        /\ mt_out.val = Fitting(Under(mt_out.args[1], mt_out.args[2]),
                                mt_out.args[3], mt_out.args[4], mt_out.args[5])
        /\ NoRepeat(mt_out.val)

\* a filter that kept two machines, in the order the catalog lists them
C13_Witness ==
    /\ Asked("filter")
    /\ mt_out.val = <<"odd", "big">>
    /\ mt_out.args[5] = FALSE

\* the pool of the last get_machine_list call asks for cores >= 1 per task
\* and its cloud and cpu are in the catalog
PoolAsks ==
    /\ Asked("get_machine_list")
    /\ resolved[1]["cores_per_task"] # None
    /\ resolved[1]["cores_per_task"][1] >= 1
    /\ resolved[1]["cpu"] # None
    /\ Found(resolved[1]["cloud"][1], resolved[1]["cpu"][1])

PoolMachines == Under(resolved[1]["cloud"][1], resolved[1]["cpu"][1])

\* C14: get_machine_list yields, for exactly the names filter returns for the
\* pool's own cloud, cpu, cores_per_task, minimum_memory_per_core and metal,
\* and in that order, the pair (name, cpus(name) // cores_per_task).
C14_MachineListPairs ==
    PoolAsks =>
        /\ mt_out.err = NoError
        /\ [i \in 1..Len(mt_out.val) |-> mt_out.val[i][1]]
              = Fitting(PoolMachines, resolved[1]["cores_per_task"][1],
                        resolved[1]["minimum_memory_per_core"][1],
                        resolved[1]["metal"][1])
        /\ \A i \in 1..Len(mt_out.val) :
              mt_out.val[i][2] = Get(PoolMachines, mt_out.val[i][1])["cpu"]
                                    \div resolved[1]["cores_per_task"][1]

\* the machine with 8 cpus listed with capacity 2 for 3 cores per task
C14_Witness ==
    /\ PoolAsks
    /\ resolved[1]["cores_per_task"] = Some(3)
    /\ \E i \in 1..Len(mt_out.val) : mt_out.val[i] = <<"big", 2>>

\* the conditions of the claim on a catalog
WellFormed(data) ==
    \A p \in 1..Len(data) :
        /\ data[p].k \in {"aws", "gcp"}
        /\ \A a \in 1..Len(data[p].v) :
              /\ data[p].v[a].k \in {"x64", "arm64"}
              /\ \A m \in 1..Len(data[p].v[a].v) :
                    /\ {"cpu", "ram"} \subseteq DOMAIN data[p].v[a].v[m].v
                    /\ DOMAIN data[p].v[a].v[m].v \subseteq {"cpu", "ram", "metal"}

Constructed == catalog # None \/ mt_error # NoError

\* C15: the constructor of MachineTypes accepts a catalog exactly when every
\* provider is aws or gcp, every architecture x64 or arm64 and every spec has
\* cpu and ram and no key besides cpu, ram and metal; the catalog it holds is
\* the accepted one, and no query is made on a rejected catalog.
C15_CatalogValidated ==
    /\ Constructed => (catalog # None <=> WellFormed(machines_data[1]))
    /\ catalog # None => (catalog = machines_data /\ WellFormed(catalog[1]))
    /\ mt_error # NoError => (catalog = None /\ ~mt_out.called)
    /\ mt_out.called => catalog # None

\* a catalog rejected for a spec without ram
C15_Witness ==
    /\ mt_error.msg = "missing required keys"
    /\ mt_error.arg = {"ram"}
    /\ catalog = None

\* the outcome of running the filter now with the arguments of the last query
FilterAgain ==
    filter(catalog[1], Some(mt_out.args[1]), Some(mt_out.args[2]), Some(mt_out.args[3]),
           Some(mt_out.args[4]), Some(mt_out.args[5]))

ParentNames == UNION {Range(parentsOf[n]) : n \in Names}

\* what a running resolution has left to do at most: two steps for every
\* parent name not loaded yet, one for every call that has not returned
Remaining == 2 * (Cardinality(ParentNames) + 1 - Len(loads)) + Len(stack)

\* a running resolution has a call to go on with, and room to nest another
CanGoOn ==
    /\ stack # <<>>
    /\ Top.i <= Len(TopParents) => Len(stack) < MaxDepth

\* C17: whatever the parent references of the documents are, self-references
\* and cycles included, a resolution that has started ends, with a
\* configuration or with an error: it loads at most as many parents as there
\* are distinct parent names, it can always take a step, and every step ends
\* it or leaves it less to do.
C17_ResolutionTerminates ==
    /\ [](loads # <<>> => Len(Tail(loads)) <= Cardinality(ParentNames))
    /\ [](status = "resolving" => (CanGoOn /\ Remaining >= Len(stack)))
    /\ [][status = "resolving" =>
            \/ status' \in {"resolved", "failed"}
            \/ status' = "resolving" /\ Remaining' < Remaining]_vars

\* a resolution that went round a cycle through every document and ended
C17_Witness ==
    /\ status = "failed"
    /\ IsCycleError(error)
    /\ Cardinality(ParentNames) = Cardinality(Names)
    /\ Len(Tail(loads)) = Cardinality(ParentNames)

\* the documents that declare no cloud or no name of their own
Unnamed == {"nocloud", "noname"}

\* the error of lines 128-129 and 164-168 for a document of such a kind
OwnError(kind) ==
    IF kind = "noname"
    THEN Raise("AssertionError", "name is required for every configuration", {})
    ELSE Raise("AssertionError", "Invalid cloud - use aws,gcp", {})

\* obj carries the cloud and the name that its own document declares
OwnCloudAndName(obj) ==
    /\ obj["name"] = Some(obj["filename"][1])
    /\ obj["cloud"] = RawData(obj["filename"][1], kindOf[obj["filename"][1]], <<>>)["cloud"]
    /\ obj["cloud"] # None /\ obj["cloud"][1] \in PROVIDERS

\* C18: cloud and name are never inherited. The construction of a node, the
\* root or a node loaded as a parent, fails on its own missing name or its own
\* missing or unknown cloud before any of its parents is loaded, whatever its
\* parents declare; every configuration under construction and every
\* resolved configuration carries the cloud and name of its own document.
C18_CloudAndNameOwn ==
    /\ \A k \in 1..Len(loads) :
          kindOf[loads[k]] \in Unnamed =>
              /\ k = Len(loads)
              /\ status = "failed"
              /\ error = OwnError(kindOf[loads[k]])
    /\ \A k \in 1..Len(stack) : OwnCloudAndName(stack[k].obj)
    /\ resolved # None => OwnCloudAndName(resolved[1])
    /\ \A c \in {None, Some("azure")} :
          ConstructFields("A", [FullData("A", <<"B">>) EXCEPT !["cloud"] = c]).err
              = OwnError("nocloud")

\* a parent without a cloud of its own, which names parents itself, has been
\* loaded below a root that declares one
C18_Witness ==
    /\ Len(loads) = 2
    /\ kindOf[loads[1]] = "full"
    /\ kindOf[loads[2]] = "nocloud"
    /\ parentsOf[loads[2]] # <<>>
    /\ status = "failed"

\* C19: get_machine_list never yields a capacity of 0 for a pool that asks
\* for at least one core per task: it lists no machine with fewer cpus than
\* cores_per_task, so every capacity it yields is at least 1.
C19_CapacityAtLeastOne ==
    PoolAsks =>
        /\ mt_out.err = NoError
        /\ \A i \in 1..Len(mt_out.val) :
              /\ Get(PoolMachines, mt_out.val[i][1])["cpu"]
                    >= resolved[1]["cores_per_task"][1]
              /\ mt_out.val[i][2] >= 1

\* a catalog with a machine of 2 cpus and one of 3, asked for 3 cores per
\* task: only the second is listed, with capacity 1
C19_Witness ==
    /\ PoolAsks
    /\ resolved[1]["cores_per_task"] = Some(3)
    /\ HasKey(PoolMachines, "small")
    /\ mt_out.val = <<<<"odd", 1>>>>

\* the loads of parents in the resolution under way or ended last
ParentLoads == IF loads = <<>> THEN <<>> ELSE Tail(loads)

\* the number of loads of the parent name n in that resolution
LoadCount(n) == Cardinality({k \in 1..Len(ParentLoads) : ParentLoads[k] = n})

\* C20: within the resolution of one root no parent name is loaded twice: a
\* name is in the visited set from before its load on, a reference to a name
\* loaded before loads nothing and ends the resolution, and a step loads at
\* most one document, whose name was not in the visited set.
C20_LoadedAtMostOnce ==
    /\ [](\A n \in Names : LoadCount(n) <= 1)
    /\ [](Range(ParentLoads) \subseteq flattened)
    /\ [][(status = "resolving" /\ loads' # loads) =>
            /\ loads' = Append(loads, refs'[Len(refs')])
            /\ refs'[Len(refs')] \notin flattened
            /\ refs'[Len(refs')] \in flattened']_vars
    /\ [][(status = "resolving" /\ refs' # refs /\ refs'[Len(refs')] \in flattened) =>
            /\ loads' = loads
            /\ status' = "failed"]_vars

\* after three loads of parents a second reference to the second of them has
\* ended the resolution without another load
C20_Witness ==
    /\ status = "failed"
    /\ IsCycleError(error)
    /\ Len(ParentLoads) = 3
    /\ refs[Len(refs)] = ParentLoads[2]
    /\ refs[Len(refs)] # loads[1]

====
